---------------------------- MODULE Spec2Model ----------------------------
(***************************************************************************)
(* Model of src/app.js: the Express application that validates a contact   *)
(* with Zod (contatoSchema), stores it with Contato.create and lists the   *)
(* contacts with Contato.findAll, behind an access-log middleware.         *)
(*                                                                         *)
(* A JavaScript string is a sequence of one-character strings, so that     *)
(* length checks and regular expressions are computed character by         *)
(* character.  A field of the request body is a tagged value:              *)
(*   its JavaScript type t and, for a string, its characters s.            *)
(* A request body is a record, as the body parsers of lines 37 and 39      *)
(* produce it.                                                             *)
(*                                                                         *)
(* A handler runs from one await to the next without interruption; the     *)
(* store and the file system settle their calls at any later moment, in    *)
(* any order.  The time stamp of an access-log line is left out.  Spec is  *)
(* the server under concurrent requests with a few bodies, SpecOne one     *)
(* request with every body of AllBodies.                                   *)
(***************************************************************************)
EXTENDS Integers, Sequences, FiniteSets, TLC

\* ------------------------------------------------------------------ bounds
\* Number of requests the concurrent specification lets arrive.
MaxReqs == 2

\* ------------------------------------------------------------- characters
Digit == {"0", "1", "2", "3", "4", "5", "6", "7", "8", "9"}

Lower == {"a", "b", "c", "d", "e", "f", "g", "h", "i", "j", "k", "l", "m",
          "n", "o", "p", "q", "r", "s", "t", "u", "v", "w", "x", "y", "z"}

Upper == {"A", "B", "C", "D", "E", "F", "G", "H", "I", "J", "K", "L", "M",
          "N", "O", "P", "Q", "R", "S", "T", "U", "V", "W", "X", "Y", "Z"}

Letter == Lower \cup Upper

Undef == [t |-> "undefined", s |-> <<>>]
Num == [t |-> "number", s |-> <<>>]
Str(s) == [t |-> "string", s |-> s]

AllIn(s, lo, hi, C) == \A i \in lo..hi : s[i] \in C

\* ---------------------------------------------------------- contatoSchema
\* Mutant of PhoneRegex: the pattern without its ^ and $ anchors, which a
\* substring of the value may match.
PhoneRegexUnanchored(s) ==
    \E k \in 0..(Len(s) - 15) :
        /\ s[k + 1] = "("
        /\ AllIn(s, k + 2, k + 3, Digit)
        /\ s[k + 4] = ")"
        /\ s[k + 5] = " "
        /\ AllIn(s, k + 6, k + 10, Digit)
        /\ s[k + 11] = "-"
        /\ AllIn(s, k + 12, k + 15, Digit)

\* /^\(\d{2}\) \d{5}-\d{4}$/ tested against the whole string (line 29).
PhoneRegex(s) ==
    /\ Len(s) = 15
    /\ s[1] = "("
    /\ AllIn(s, 2, 3, Digit)
    /\ s[4] = ")"
    /\ s[5] = " "
    /\ AllIn(s, 6, 10, Digit)
    /\ s[11] = "-"
    /\ AllIn(s, 12, 15, Digit)

\* Positions of character c in s.
Positions(s, c) == {i \in 1..Len(s) : s[i] = c}

\* One label of the domain, s[lo..hi]: [A-Z0-9][A-Z0-9\-]* (case-insensitive).
DomainLabel(s, lo, hi) ==
    /\ lo <= hi
    /\ s[lo] \in Letter \cup Digit
    /\ AllIn(s, lo, hi, Letter \cup Digit \cup {"-"})

\* .email() of line 26, Zod's pattern
\* /^(?!\.)(?!.*\.\.)([A-Z0-9_'+\-\.]*)[A-Z0-9_+-]@([A-Z0-9][A-Z0-9\-]*\.)+[A-Z]{2,}$/i
EmailRegex(s) ==
    /\ Cardinality(Positions(s, "@")) = 1
    /\ LET at == CHOOSE i \in Positions(s, "@") : TRUE
           dots == {i \in Positions(s, ".") : i > at}
       IN  /\ at >= 2
           /\ s[1] /= "."
           /\ \A i \in 1..(Len(s) - 1) : ~(s[i] = "." /\ s[i + 1] = ".")
           /\ AllIn(s, 1, at - 1, Letter \cup Digit \cup {"_", "'", "+", "-", "."})
           /\ s[at - 1] \in Letter \cup Digit \cup {"_", "+", "-"}
           /\ dots /= {}
           /\ LET cuts == {at} \cup dots
                  last == CHOOSE i \in dots : \A j \in dots : j <= i
              IN  /\ \A c \in cuts \ {last} :
                        LET nxt == CHOOSE d \in dots : d > c /\ \A e \in dots : e > c => d <= e
                        IN  DomainLabel(s, c + 1, nxt - 1)
                  /\ Len(s) - last >= 2
                  /\ AllIn(s, last + 1, Len(s), Letter)

\* The message z.string() gives a value that is no string when the schema
\* sets none (line 28): Zod's default for the received type.
ZodTypeMessage(v) ==
    IF v.t = "undefined" THEN "Required" ELSE "Expected string, received " \o v.t

\* Mutant of NomeIssues: the minimum length off by one, .min(2).
NomeIssuesMin2(v) ==
    IF v.t /= "string" THEN <<"Campo nome é obrigatório">>
    ELSE IF Len(v.s) < 2 THEN <<"O nome deve ter no mínimo 03 caracteres.">>
    ELSE <<>>

\* nome: z.string({message}).min(3, {message})   (lines 22-23)
NomeIssues(v) ==
    IF v.t /= "string" THEN <<"Campo nome é obrigatório">>
    ELSE IF Len(v.s) < 3 THEN <<"O nome deve ter no mínimo 03 caracteres.">>
    ELSE <<>>

\* email: z.string({message}).email({message})   (lines 25-26)
EmailIssues(v) ==
    IF v.t /= "string" THEN <<"Campo e-mail é obrigatório.">>
    ELSE IF ~EmailRegex(v.s) THEN <<"Deve ser um e-mail válido.">>
    ELSE <<>>

\* telefone: z.string().regex(re, {message})   (lines 28-29)
TelefoneIssues(v) ==
    IF v.t /= "string" THEN <<ZodTypeMessage(v)>>
    ELSE IF ~PhoneRegex(v.s) THEN <<"Deve enviar um telefone válido">>
    ELSE <<>>

\* Mutant of safeParse: validation that stops at the first field that fails.
safeParseAbortEarly(contato) ==
    LET issues == IF NomeIssues(contato.nome) /= <<>> THEN NomeIssues(contato.nome)
                  ELSE IF EmailIssues(contato.email) /= <<>> THEN EmailIssues(contato.email)
                  ELSE TelefoneIssues(contato.telefone)
    IN  [success |-> issues = <<>>, issues |-> issues]

\* contatoSchema.safeParse(contato): the issues of the three keys of the
\* object schema, in the order the schema declares them; keys the schema
\* does not declare are ignored.
safeParse(contato) ==
    LET issues == NomeIssues(contato.nome) \o EmailIssues(contato.email)
                    \o TelefoneIssues(contato.telefone)
    IN  [success |-> issues = <<>>, issues |-> issues]

\* erros.join("; ")   (line 55)
RECURSIVE join(_, _)
join(erros, sep) ==
    IF erros = <<>> THEN ""
    ELSE IF Len(erros) = 1 THEN erros[1]
    ELSE erros[1] \o sep \o join(Tail(erros), sep)


\* ------------------------------------------------------ request bodies
AnaSilva == <<"A", "n", "a", " ", "S", "i", "l", "v", "a">>
AnaEmail == <<"a", "n", "a", "@", "e", "x", "a", "m", "p", "l", "e", ".", "c", "o", "m">>
AnaPhone == <<"(", "1", "1", ")", " ", "9", "1", "2", "3", "4", "-", "5", "6", "7", "8">>

NameValues ==
    { Undef, Num,
      Str(<<"A", "l">>),
      Str(<<"A", "n", "a">>),
      Str(AnaSilva) }

EmailValues ==
    { Undef, Num,
      Str(<<"b", "a", "d">>),
      Str(<<"a", "@", "b", ".", "c">>),
      Str(<<"a", ".", ".", "b", "@", "x", ".", "c", "o">>),
      Str(<<"j", "o", "@", "x", "-", "y", ".", "c", "o", ".", "u", "k">>),
      Str(AnaEmail) }

PhoneValues ==
    { Undef, Num,
      Str(<<"1", "2", "3">>),
      \* "11 91234-5678": no parentheses
      Str(<<"1", "1", " ", "9", "1", "2", "3", "4", "-", "5", "6", "7", "8">>),
      \* "(11) 9123-45678": digits grouped 4-5
      Str(<<"(", "1", "1", ")", " ", "9", "1", "2", "3", "-", "4", "5", "6", "7", "8">>),
      \* " (11) 91234-5678" and "(11) 91234-5678 ": whitespace around
      Str(<<" ">> \o AnaPhone),
      Str(AnaPhone \o <<" ">>),
      \* "(11) 91234-56789": a match followed by one more digit
      Str(AnaPhone \o <<"9">>),
      Str(<<"(", "2", "1", ")", " ", "9", "9", "9", "9", "9", "-", "0", "0", "0", "0">>),
      Str(AnaPhone) }

\* A key the schema does not declare, present or not in the body.
ExtraValues == { Undef, Str(<<"7">>) }

Body(n, e, p, x) == [nome |-> n, email |-> e, telefone |-> p, id |-> x]

\* Every body the single-request specification submits.
AllBodies ==
    { Body(n, e, p, x) : n \in NameValues, e \in EmailValues,
                         p \in PhoneValues, x \in ExtraValues }

\* The bodies the concurrent specification submits: two different valid
\* contacts (one with an undeclared key) and one body invalid in every field.
ReqBodies ==
    { Body(Str(AnaSilva), Str(AnaEmail), Str(AnaPhone), Str(<<"7">>)),
      Body(Str(<<"A", "n", "a">>),
           Str(<<"j", "o", "@", "x", "-", "y", ".", "c", "o", ".", "u", "k">>),
           Str(<<"(", "2", "1", ")", " ", "9", "9", "9", "9", "9", "-", "0", "0", "0", "0">>),
           Undef),
      Body(Str(<<"A", "l">>), Str(<<"b", "a", "d">>), Str(<<"1", "2", "3">>), Undef) }

NoBody == Body(Undef, Undef, Undef, Undef)

\* Errors the store's driver and the file system can report.
StorageErrors == {"SequelizeConnectionError", "SequelizeUniqueConstraintError"}
FileErrors == {"EACCES"}

Reqs == 1..MaxReqs

\* ------------------------------------------------------------------ state
VARIABLES
    pc,          \* [Reqs -> position of the request's handler]
    req,         \* [Reqs -> [method, url, body]]
    res,         \* [Reqs -> sequence of the responses sent to the client]
    appendFile,  \* [Reqs -> state of the request's fs.appendFile call]
    appends,     \* [Reqs -> number of fs.appendFile calls the request issued]
    creates,     \* [Reqs -> sequence of the arguments of its Contato.create calls]
    finds,       \* [Reqs -> number of its Contato.findAll calls]
    settled,     \* [Reqs -> what its store call settled with]
    table,       \* the rows of the Contato table, in insertion order
    accessLog,   \* the lines of access.log, each with the request that wrote it
    console,     \* the console.error entries
    crashed,     \* the process has exited
    platform     \* what the running Express and Node do with an unhandled rejection,
                 \* "unknown" until the first one shows it

vars == <<pc, req, res, appendFile, appends, creates, finds, settled, table,
          accessLog, console, crashed, platform>>

\* What becomes of a promise an async handler rejects with, which nothing in
\* the handler catches: it depends on the Express and Node versions that run
\* the file.  "pending": the rejection is only reported and the request is
\* never answered; "exit": the process exits; "stack" and "generic": the
\* router passes the error to its default error handler, which answers 500
\* with the error's detail or with the status text.  The versions are the
\* same for the whole run.
UnhandledOutcomes == {"pending", "exit", "stack", "generic"}

Pending == [state |-> "pending", error |-> "", rows |-> <<>>]

Init ==
    /\ pc = [r \in Reqs |-> "idle"]
    /\ req = [r \in Reqs |-> [method |-> "", url |-> "", body |-> NoBody]]
    /\ res = [r \in Reqs |-> <<>>]
    /\ appendFile = [r \in Reqs |-> "none"]
    /\ appends = [r \in Reqs |-> 0]
    /\ creates = [r \in Reqs |-> <<>>]
    /\ finds = [r \in Reqs |-> 0]
    /\ settled = [r \in Reqs |-> Pending]
    /\ table = <<>>
    /\ accessLog = {}
    /\ console = {}
    /\ crashed = FALSE
    /\ platform = "unknown"

\* ------------------------------------------------------------ responses
\* res.status(status).send(text); res.send(text) is status 200.
Send(status, text) == [status |-> status, body |-> text, view |-> "", contatos |-> <<>>]

\* res.render(view, {contatos}): status 200 and the view with its locals.
Render(view, contatos) == [status |-> 200, body |-> "", view |-> view, contatos |-> contatos]

\* res.status(400).send(erros.join("; "))   (lines 54-55)
InvalidResponse(issues) == Send(400, join(issues, "; "))

\* res.send("Contato salvo com sucesso")   (line 59)
SavedResponse == Send(200, "Contato salvo com sucesso")

\* res.render("contatos", { contatos })   (line 67)
ListResponse(contatos) == Render("contatos", contatos)

\* Mutant of CaughtResponse: the error's text sent to the client.
CaughtResponseLeaks(error) == Send(500, "Erro ao buscar contatos: " \o error)

\* res.status(500).send("Erro ao buscar contatos.")   (line 70)
CaughtResponse(error) == Send(500, "Erro ao buscar contatos.")

\* ---------------------------------------------------------- Contato store
\* Contato.create(values): one row inserted with the next identity.
StoreCreate(rows, values) ==
    Append(rows, [id |-> Len(rows) + 1, nome |-> values.nome,
                  telefone |-> values.telefone, email |-> values.email])

\* Contato.findAll(): every row.
StoreFindAll(rows) == rows


\* ------------------------------------------------------------- middleware
\* Lines 10-18: the access-log line is handed to fs.appendFile, whose
\* callback runs later, and next() is called at once.
LogMiddleware(r, method, url, body) ==
    /\ req' = [req EXCEPT ![r] = [method |-> method, url |-> url, body |-> body]]
    /\ appends' = [appends EXCEPT ![r] = @ + 1]
    /\ appendFile' = [appendFile EXCEPT ![r] = "pending"]

\* A request is taken when the process runs; requests are numbered in the
\* order they arrive.
Arrives(r) ==
    /\ ~crashed
    /\ pc[r] = "idle"
    /\ \A q \in Reqs : q < r => pc[q] /= "idle"

\* Mutant of AppendFileCallback: a failed write answers the request with 500.
AppendFileCallbackAnswers(r, err) ==
    /\ appendFile' = [appendFile EXCEPT ![r] = IF err = "" THEN "written" ELSE "failed"]
    /\ accessLog' = IF err = "" THEN accessLog \cup {<<r, req[r].method, req[r].url>>}
                    ELSE accessLog
    /\ console' = IF err = "" THEN console
                  ELSE console \cup {[req |-> r, text |-> "Erro ao escrever no arquivo de log:",
                                      error |-> err]}
    /\ res' = IF err = "" THEN res
              ELSE [res EXCEPT ![r] = Append(@, Send(500, "Erro ao escrever no arquivo de log"))]
    /\ UNCHANGED pc

\* The callback of fs.appendFile (lines 12-16): the line is in the file, or
\* the error goes to console.error; nothing else is touched.
AppendFileCallback(r, err) ==
    /\ appendFile' = [appendFile EXCEPT ![r] = IF err = "" THEN "written" ELSE "failed"]
    /\ accessLog' = IF err = "" THEN accessLog \cup {<<r, req[r].method, req[r].url>>}
                    ELSE accessLog
    /\ console' = IF err = "" THEN console
                  ELSE console \cup {[req |-> r, text |-> "Erro ao escrever no arquivo de log:",
                                      error |-> err]}
    /\ UNCHANGED <<pc, res>>

AppendFileDone(r) ==
    /\ ~crashed
    /\ appendFile[r] = "pending"
    /\ \E err \in FileErrors \cup {""} : AppendFileCallback(r, err)
    /\ UNCHANGED <<req, appends, creates, finds, settled, table, crashed, platform>>

\* ------------------------------------------------------------- GET "/"
\* Lines 42-44.
GetIndex(r) ==
    /\ Arrives(r)
    /\ LogMiddleware(r, "GET", "/", NoBody)
    /\ res' = [res EXCEPT ![r] = Append(@, Render("index", <<>>))]
    /\ pc' = [pc EXCEPT ![r] = "done"]
    /\ UNCHANGED <<creates, finds, settled, table, accessLog, console, crashed, platform>>

\* ------------------------------------------------------------- POST "/"
\* Mutant of CreateValues: email and telefone exchanged.
CreateValuesSwapped(contato) ==
    [nome |-> contato.nome, telefone |-> contato.email, email |-> contato.telefone]

\* Mutant of CreateValues: the whole request body handed to Contato.create.
CreateValuesWholeBody(contato) == contato

\* The values line 58 hands to Contato.create.
CreateValues(contato) ==
    [nome |-> contato.nome, telefone |-> contato.telefone, email |-> contato.email]

\* Lines 47-58, up to the await: the body is validated; an invalid body is
\* answered 400 with the joined messages, a valid one starts Contato.create.
PostIndex(r, contato) ==
    /\ Arrives(r)
    /\ LogMiddleware(r, "POST", "/", contato)
    /\ LET resultado == safeParse(contato)
       IN  IF ~resultado.success
           THEN /\ res' = [res EXCEPT ![r] = Append(@, InvalidResponse(resultado.issues))]
                /\ pc' = [pc EXCEPT ![r] = "done"]
                /\ UNCHANGED creates
           ELSE /\ creates' = [creates EXCEPT ![r] = Append(@, CreateValues(contato))]
                /\ pc' = [pc EXCEPT ![r] = "awaitCreate"]
                /\ UNCHANGED res
    /\ UNCHANGED <<finds, settled, table, accessLog, console, crashed, platform>>

\* Contato.create settles: the row is inserted, or the call fails with an
\* error and inserts nothing.
CreateResolves(r) ==
    /\ pc[r] = "awaitCreate"
    /\ table' = StoreCreate(table, creates[r][Len(creates[r])])
    /\ settled' = [settled EXCEPT ![r] = [state |-> "resolved", error |-> "", rows |-> <<>>]]
    /\ pc' = [pc EXCEPT ![r] = "createSettled"]
    /\ UNCHANGED <<req, res, appendFile, appends, creates, finds, accessLog, console, crashed, platform>>

CreateRejects(r, err) ==
    /\ pc[r] = "awaitCreate"
    /\ settled' = [settled EXCEPT ![r] = [state |-> "rejected", error |-> err, rows |-> <<>>]]
    /\ pc' = [pc EXCEPT ![r] = "createSettled"]
    /\ UNCHANGED <<req, res, appendFile, appends, creates, finds, table, accessLog, console,
                   crashed, platform>>

\* Line 59, after the await of a create that succeeded.
PostSaved(r) ==
    /\ ~crashed
    /\ pc[r] = "createSettled"
    /\ settled[r].state = "resolved"
    /\ res' = [res EXCEPT ![r] = Append(@, SavedResponse)]
    /\ pc' = [pc EXCEPT ![r] = "done"]
    /\ UNCHANGED <<req, appendFile, appends, creates, finds, settled, table, accessLog,
                   console, crashed, platform>>

\* Lines 58-61, after the await of a create that failed: the await throws,
\* the handler has no try/catch, line 59 is not reached.
PostThrows(r) ==
    /\ ~crashed
    /\ pc[r] = "createSettled"
    /\ settled[r].state = "rejected"
    /\ pc' = [pc EXCEPT ![r] = "threw"]
    /\ \E outcome \in (IF platform = "unknown" THEN UnhandledOutcomes ELSE {platform}) :
          /\ platform' = outcome
          /\ crashed' = (outcome = "exit")
          /\ res' = [res EXCEPT ![r] =
                       CASE outcome = "stack" -> Append(@, Send(500, settled[r].error))
                         [] outcome = "generic" -> Append(@, Send(500, "Internal Server Error"))
                         [] OTHER -> @]
    /\ UNCHANGED <<req, appendFile, appends, creates, finds, settled, table, accessLog,
                   console>>

\* --------------------------------------------------------- GET "/contatos"
\* Lines 64-66, up to the await: Contato.findAll is started.
GetContatos(r) ==
    /\ Arrives(r)
    /\ LogMiddleware(r, "GET", "/contatos", NoBody)
    /\ finds' = [finds EXCEPT ![r] = @ + 1]
    /\ pc' = [pc EXCEPT ![r] = "awaitFindAll"]
    /\ UNCHANGED <<res, creates, settled, table, accessLog, console, crashed, platform>>

\* Contato.findAll settles: with the rows of the table, or with an error.
FindAllResolves(r) ==
    /\ pc[r] = "awaitFindAll"
    /\ settled' = [settled EXCEPT ![r] =
                     [state |-> "resolved", error |-> "", rows |-> StoreFindAll(table)]]
    /\ pc' = [pc EXCEPT ![r] = "findAllSettled"]
    /\ UNCHANGED <<req, res, appendFile, appends, creates, finds, table, accessLog, console,
                   crashed, platform>>

FindAllRejects(r, err) ==
    /\ pc[r] = "awaitFindAll"
    /\ settled' = [settled EXCEPT ![r] = [state |-> "rejected", error |-> err, rows |-> <<>>]]
    /\ pc' = [pc EXCEPT ![r] = "findAllSettled"]
    /\ UNCHANGED <<req, res, appendFile, appends, creates, finds, table, accessLog, console,
                   crashed, platform>>

\* Line 67.
ContatosRendered(r) ==
    /\ ~crashed
    /\ pc[r] = "findAllSettled"
    /\ settled[r].state = "resolved"
    /\ res' = [res EXCEPT ![r] = Append(@, ListResponse(settled[r].rows))]
    /\ pc' = [pc EXCEPT ![r] = "done"]
    /\ UNCHANGED <<req, appendFile, appends, creates, finds, settled, table, accessLog,
                   console, crashed, platform>>

\* Lines 68-71.
ContatosCaught(r) ==
    /\ ~crashed
    /\ pc[r] = "findAllSettled"
    /\ settled[r].state = "rejected"
    /\ console' = console \cup {[req |-> r, text |-> "Erro ao buscar contatos:",
                                 error |-> settled[r].error]}
    /\ res' = [res EXCEPT ![r] = Append(@, CaughtResponse(settled[r].error))]
    /\ pc' = [pc EXCEPT ![r] = "done"]
    /\ UNCHANGED <<req, appendFile, appends, creates, finds, settled, table, accessLog,
                   crashed, platform>>

\* ---------------------------------------------------------- specifications
\* What a request does once it has arrived.
Step(r) ==
    \/ AppendFileDone(r)
    \/ CreateResolves(r)
    \/ \E err \in StorageErrors : CreateRejects(r, err)
    \/ PostSaved(r)
    \/ PostThrows(r)
    \/ FindAllResolves(r)
    \/ \E err \in StorageErrors : FindAllRejects(r, err)
    \/ ContatosRendered(r)
    \/ ContatosCaught(r)

\* The server under concurrent requests.
Next ==
    \E r \in Reqs :
        \/ GetIndex(r)
        \/ \E contato \in ReqBodies : PostIndex(r, contato)
        \/ GetContatos(r)
        \/ Step(r)

Spec == Init /\ [][Next]_vars

\* One request, with every body.
NextOne ==
    \/ GetIndex(1)
    \/ \E contato \in AllBodies : PostIndex(1, contato)
    \/ GetContatos(1)
    \/ Step(1)

SpecOne == Init /\ [][NextOne]_vars


\* ------------------------------------------------------------- properties
IsPost(r) == req[r].method = "POST" /\ req[r].url = "/"
IsList(r) == req[r].method = "GET" /\ req[r].url = "/contatos"

\* The phone format (DD) DDDDD-DDDD, D a digit, as a shape of the whole string.
PhoneShape == <<"(", "D", "D", ")", " ", "D", "D", "D", "D", "D", "-", "D", "D", "D", "D">>

MatchesPhoneShape(v) ==
    /\ v.t = "string"
    /\ Len(v.s) = Len(PhoneShape)
    /\ \A i \in 1..Len(PhoneShape) :
          IF PhoneShape[i] = "D" THEN v.s[i] \in Digit ELSE v.s[i] = PhoneShape[i]

NameOk(v) == v.t = "string" /\ Len(v.s) >= 3
EmailOk(v) == v.t = "string" /\ EmailRegex(v.s)

\* The three field checks of a contact.
PassesChecks(c) == NameOk(c.nome) /\ EmailOk(c.email) /\ MatchesPhoneShape(c.telefone)

\* a and b joined by "; ", either of them possibly empty.
Sep(a, b) == IF a = "" THEN b ELSE IF b = "" THEN a ELSE a \o "; " \o b

NameMessage(v) ==
    IF v.t /= "string" THEN "Campo nome é obrigatório"
    ELSE IF Len(v.s) < 3 THEN "O nome deve ter no mínimo 03 caracteres."
    ELSE ""

EmailMessage(v) ==
    IF v.t /= "string" THEN "Campo e-mail é obrigatório."
    ELSE IF ~EmailRegex(v.s) THEN "Deve ser um e-mail válido."
    ELSE ""

PhoneFormatMessage == "Deve enviar um telefone válido"

PhoneMessage(v) ==
    IF MatchesPhoneShape(v) THEN ""
    ELSE IF v.t = "string" THEN PhoneFormatMessage
    ELSE IF v.t = "undefined" THEN "Required"
    ELSE "Expected string, received number"

\* The body of the spec's example: name "Al", email "bad", phone "123".
ExampleInvalid(c) ==
    /\ c.nome = Str(<<"A", "l">>)
    /\ c.email = Str(<<"b", "a", "d">>)
    /\ c.telefone = Str(<<"1", "2", "3">>)

\* C1: a POST / whose body fails a field check never calls Contato.create and
\* is answered 400, and every row of the table passes the three checks.
C1_InvalidNeverStored ==
    /\ \A r \in Reqs :
          (IsPost(r) /\ ~PassesChecks(req[r].body))
              => /\ creates[r] = <<>>
                 /\ Len(res[r]) = 1
                 /\ res[r][1].status = 400
    /\ \A i \in DOMAIN table : PassesChecks(table[i])

C1_Witness ==
    \E r \in Reqs :
        /\ IsPost(r)
        /\ NameOk(req[r].body.nome) /\ EmailOk(req[r].body.email)
        /\ ~MatchesPhoneShape(req[r].body.telefone)
        /\ pc[r] = "done"
        /\ res[r][1].status = 400

\* C2: a POST / whose body passes the three checks calls Contato.create
\* exactly once, with the submitted nome, email and telefone and nothing
\* else, and when the create succeeded the one answer is 200 with the
\* confirmation text.
C2_ValidCreatedOnce ==
    \A r \in Reqs :
        (IsPost(r) /\ PassesChecks(req[r].body))
            => /\ creates[r] = << [nome |-> req[r].body.nome,
                                   email |-> req[r].body.email,
                                   telefone |-> req[r].body.telefone] >>
               /\ settled[r].state = "resolved"
                    => /\ Len(res[r]) <= 1
                       /\ pc[r] = "done" => Len(res[r]) = 1
                       /\ \A i \in DOMAIN res[r] :
                             /\ res[r][i].status = 200
                             /\ res[r][i].body = "Contato salvo com sucesso"
                             /\ res[r][i].view = ""

C2_Witness ==
    \E r \in Reqs :
        /\ IsPost(r)
        /\ PassesChecks(req[r].body)
        /\ req[r].body.id /= Undef
        /\ pc[r] = "done"
        /\ Len(creates[r]) = 1
        /\ res[r] /= <<>>
        /\ res[r][1].status = 200

\* C5: the body of a 400 answer is every failing field's message, in the
\* order name, email, phone, joined by "; "; the example body gets the three
\* messages name-length, email-format, phone-format.
C5_AllMessagesInOrder ==
    \A r \in Reqs :
        (IsPost(r) /\ ~PassesChecks(req[r].body))
            => /\ res[r] /= <<>>
               /\ res[r][1].status = 400
               /\ res[r][1].body = Sep(Sep(NameMessage(req[r].body.nome),
                                           EmailMessage(req[r].body.email)),
                                       PhoneMessage(req[r].body.telefone))
               /\ ExampleInvalid(req[r].body)
                    => res[r][1].body =
                         "O nome deve ter no mínimo 03 caracteres.; Deve ser um e-mail válido.; Deve enviar um telefone válido"

C5_Witness ==
    \E r \in Reqs :
        /\ IsPost(r)
        /\ ExampleInvalid(req[r].body)
        /\ res[r] /= <<>>
        /\ res[r][1].status = 400

\* The 400 body when the phone field's message is m: the messages of name and
\* email, then m.
WithPhoneMessage(c, m) == Sep(join(NomeIssues(c.nome) \o EmailIssues(c.email), "; "), m)

\* C6, as claimed: whenever the phone is not a string of the shape
\* (DD) DDDDD-DDDD, a missing or non-string phone included, the POST is
\* answered 400 and the phone field's message is the phone-format message.
C6_PhoneFormatMessageAlways ==
    \A r \in Reqs :
        (IsPost(r) /\ ~MatchesPhoneShape(req[r].body.telefone))
            => /\ res[r] /= <<>>
               /\ res[r][1].status = 400
               /\ res[r][1].body = WithPhoneMessage(req[r].body, PhoneFormatMessage)

\* C6, amended: whenever the phone is not a string of the shape
\* (DD) DDDDD-DDDD the POST is answered 400; the phone field's message is the
\* phone-format message when the phone is a string, and Zod's message for a
\* value of the wrong type ("Required" for a missing one) when it is not.
C6_PhoneFormatMessageForStrings ==
    \A r \in Reqs :
        (IsPost(r) /\ ~MatchesPhoneShape(req[r].body.telefone))
            => /\ res[r] /= <<>>
               /\ res[r][1].status = 400
               /\ creates[r] = <<>>
               /\ res[r][1].body =
                    WithPhoneMessage(req[r].body,
                        CASE req[r].body.telefone.t = "string" -> PhoneFormatMessage
                          [] req[r].body.telefone.t = "undefined" -> "Required"
                          [] OTHER -> "Expected string, received number")

C6_Witness ==
    \E r \in Reqs :
        /\ IsPost(r)
        /\ req[r].body.telefone = Str(<<" ">> \o AnaPhone)
        /\ NameOk(req[r].body.nome) /\ EmailOk(req[r].body.email)
        /\ res[r] /= <<>>
        /\ res[r][1].body = PhoneFormatMessage


\* The POST requests whose Contato.create succeeded, and those answered 200.
Stored == {r \in Reqs : IsPost(r) /\ settled[r].state = "resolved"}
Saved == {r \in Reqs : IsPost(r) /\ res[r] /= <<>> /\ res[r][1].status = 200}

Fields(c) == <<c.nome, c.email, c.telefone>>

\* C3, as claimed: a POST / whose Contato.create failed is answered once,
\* with 500 and a text that holds nothing of the storage error, and leaves no
\* row in the table.
C3_CreateFailureAnswered500 ==
    \A r \in Reqs :
        (IsPost(r) /\ pc[r] = "threw")
            => /\ Len(res[r]) = 1
               /\ res[r][1].status = 500
               /\ res[r][1].body \notin StorageErrors
               /\ Len(table) = Cardinality(Stored)

\* C7, as claimed: a request whose handler has finished, a store failure
\* included, has received exactly one response, and no request ever has two.
C7_ExactlyOneResponse ==
    \A r \in Reqs :
        /\ Len(res[r]) <= 1
        /\ pc[r] \in {"done", "threw"} => Len(res[r]) = 1

\* C4, the state part: the table holds one row for each successful create,
\* with the submitted name, email and phone (equal submissions as separate
\* rows); every request answered 200 has its row; what findAll returned is
\* the table of some earlier moment, unchanged since; and the list view is
\* rendered with exactly what findAll returned.
C4_TableIsSubmissions ==
    /\ Len(table) = Cardinality(Stored)
    /\ Saved \subseteq Stored
    /\ \A r \in Stored : pc[r] = "done" => r \in Saved
    /\ \A f \in {Fields(req[r].body) : r \in Stored} \cup {Fields(table[i]) : i \in DOMAIN table} :
          Cardinality({i \in DOMAIN table : Fields(table[i]) = f})
              = Cardinality({r \in Stored : Fields(req[r].body) = f})
    /\ \A r \in Reqs :
          (IsList(r) /\ settled[r].state = "resolved")
              => /\ Len(settled[r].rows) <= Len(table)
                 /\ settled[r].rows = SubSeq(table, 1, Len(settled[r].rows))
                 /\ pc[r] = "done"
                      => /\ Len(res[r]) = 1
                         /\ res[r][1].status = 200
                         /\ res[r][1].view = "contatos"
                         /\ res[r][1].contatos = settled[r].rows

\* C4, the step part: a step leaves the table alone or adds one row at its
\* end, and a findAll that succeeds returns the whole table of that moment.
C4_TableStep ==
    /\ \/ table' = table
       \/ /\ Len(table') = Len(table) + 1
          /\ SubSeq(table', 1, Len(table)) = table
    /\ \A r \in Reqs :
          (pc[r] = "awaitFindAll" /\ pc'[r] = "findAllSettled"
                /\ settled'[r].state = "resolved")
              => settled'[r].rows = table

C8_ListAnswers ==
    \A r \in Reqs :
        IsList(r)
            => /\ finds[r] = 1
               /\ creates[r] = <<>>
               /\ pc[r] /= "done" => res[r] = <<>>
               /\ (pc[r] = "done" /\ settled[r].state = "resolved")
                    => res[r] = << [status |-> 200, body |-> "", view |-> "contatos",
                                    contatos |-> settled[r].rows] >>
               /\ (pc[r] = "done" /\ settled[r].state = "rejected")
                    => /\ res[r] = << [status |-> 500, body |-> "Erro ao buscar contatos.",
                                       view |-> "", contatos |-> <<>>] >>
                       /\ [req |-> r, text |-> "Erro ao buscar contatos:",
                           error |-> settled[r].error] \in console

C8_Witness ==
    \E r, q \in Reqs :
        /\ IsList(r) /\ IsList(q)
        /\ pc[r] = "done" /\ pc[q] = "done"
        /\ settled[r].state = "rejected" /\ settled[q].state = "rejected"
        /\ settled[r].error /= settled[q].error
        /\ res[r] = res[q]
        /\ res[r] /= <<>>

\* C9: every request that arrived issued exactly one fs.appendFile and went
\* on to its handler, and two requests that are the same, are at the same
\* place and got the same result from the store have the same responses and
\* the same Contato.create calls, whatever became of their log writes.
C9_LogNeverChangesOutcome ==
    /\ \A r \in Reqs :
          /\ pc[r] = "idle" => appends[r] = 0 /\ appendFile[r] = "none"
          /\ pc[r] /= "idle" => appends[r] = 1 /\ appendFile[r] /= "none"
    /\ \A r, q \in Reqs :
          (req[r] = req[q] /\ pc[r] = pc[q] /\ settled[r] = settled[q])
              => /\ res[r] = res[q]
                 /\ creates[r] = creates[q]

C9_Witness ==
    \E r, q \in Reqs :
        /\ IsPost(r)
        /\ req[r] = req[q]
        /\ pc[r] = "done" /\ pc[q] = "done"
        /\ settled[r].state = "resolved" /\ settled[q].state = "resolved"
        /\ appendFile[r] = "failed"
        /\ appendFile[q] = "written"
        /\ res[r] = res[q]
        /\ res[r] /= <<>>

\* What a request whose store call has settled does next.
Resume(r) == PostSaved(r) \/ PostThrows(r) \/ ContatosRendered(r) \/ ContatosCaught(r)

\* C10, as claimed: whatever the other requests do, the next request can be
\* taken and a request whose own store call has settled can go on to its
\* answer.
C10_RequestsIndependent ==
    \A r \in Reqs :
        /\ (pc[r] = "idle" /\ \A q \in Reqs : q < r => pc[q] /= "idle")
              => ENABLED GetIndex(r)
        /\ pc[r] \in {"createSettled", "findAllSettled"} => ENABLED Resume(r)

=============================================================================
